---------------------------- MODULE Spec2Model ----------------------------
(***************************************************************************)
(* VotoFlow Audit: the electoral dashboard of src/App.tsx and the map      *)
(* component VoteMap of src/unnamed/part_000.                              *)
(*                                                                         *)
(* The model covers the App component's state, its event handlers and      *)
(* effects, the memoised filter and analytics, and VoteMap's stats and     *)
(* getVisuals.  JavaScript numbers are IEEE 754 binary64: the arithmetic   *)
(* that getVisuals does on them is modelled bit for bit on naturals held   *)
(* as limb sequences, because TLC's integers are 32 bits wide.             *)
(***************************************************************************)
EXTENDS Integers, Sequences, FiniteSets, TLC

VARIABLES
    rawData,        \* App.tsx:29   VoteRecord[]
    aggregatedData, \* App.tsx:30   LocationData[]
    viewMode,       \* App.tsx:33
    filters,        \* App.tsx:34
    isLive,         \* App.tsx:35
    dataSource,     \* App.tsx:36
    messages,       \* App.tsx:39   the chat transcript
    inputValue,     \* App.tsx:40
    isTyping,       \* App.tsx:41
    calls,          \* the sendMessageToChat calls started so far (App.tsx:155)
    filteredData,   \* App.tsx:64   memo on [aggregatedData, filters]
    analytics,      \* App.tsx:84   memo on [filteredData, filters]
    markers,        \* part_000:107 what VoteMap renders: getVisuals per location
    mounted         \* whether the mount effects (App.tsx:50-61) have run

vars == << rawData, aggregatedData, viewMode, filters, isLive, dataSource,
           messages, inputValue, isTyping, calls, filteredData, analytics,
           markers, mounted >>

-----------------------------------------------------------------------------
(***************************************************************************)
(* Naturals of any size: little-endian sequences of limbs below Base, with *)
(* no leading zero limb (the empty sequence is 0).                         *)
(***************************************************************************)
LimbBits == 14
Base == 2 ^ LimbBits

RECURSIVE BigOfNat(_)
BigOfNat(n) == IF n = 0 THEN << >> ELSE << n % Base >> \o BigOfNat(n \div Base)

RECURSIVE BigNorm(_)
BigNorm(b) ==
    IF b = << >> THEN << >>
    ELSE IF b[Len(b)] = 0 THEN BigNorm(SubSeq(b, 1, Len(b) - 1)) ELSE b

\* b * k + carry, for a small k (k * Base stays below 2^31)
RECURSIVE BigMulSmallC(_, _, _)
BigMulSmallC(b, k, carry) ==
    IF b = << >> THEN BigOfNat(carry)
    ELSE LET v == b[1] * k + carry
         IN  << v % Base >> \o BigMulSmallC(Tail(b), k, v \div Base)

BigMulSmall(b, k) == BigNorm(BigMulSmallC(b, k, 0))

RECURSIVE BigAddC(_, _, _)
BigAddC(a, b, carry) ==
    IF a = << >> /\ b = << >> THEN BigOfNat(carry)
    ELSE LET x == IF a = << >> THEN 0 ELSE a[1]
             y == IF b = << >> THEN 0 ELSE b[1]
             v == x + y + carry
         IN  << v % Base >>
             \o BigAddC(IF a = << >> THEN a ELSE Tail(a),
                        IF b = << >> THEN b ELSE Tail(b), v \div Base)

BigAdd(a, b) == BigNorm(BigAddC(a, b, 0))

Zeros(n) == [i \in 1..n |-> 0]

\* b * Base^n
BigShlLimbs(b, n) == IF b = << >> THEN << >> ELSE Zeros(n) \o b

\* b * 2^bits
BigShl(b, bits) ==
    BigShlLimbs(BigMulSmall(b, 2 ^ (bits % LimbBits)), bits \div LimbBits)

RECURSIVE BigMul(_, _)
BigMul(a, b) ==
    IF b = << >> THEN << >>
    ELSE BigAdd(BigMulSmall(a, b[1]), BigShlLimbs(BigMul(a, Tail(b)), 1))

\* quotient and remainder of b by a small n >= 1, from the top limb down
RECURSIVE BigDivSmallR(_, _, _)
BigDivSmallR(b, n, r) ==
    IF b = << >> THEN [q |-> << >>, r |-> r]
    ELSE LET v    == r * Base + b[Len(b)]
             rest == BigDivSmallR(SubSeq(b, 1, Len(b) - 1), n, v % n)
         IN  [q |-> rest.q \o << v \div n >>, r |-> rest.r]

BigDivSmall(b, n) ==
    LET d == BigDivSmallR(b, n, 0) IN [q |-> BigNorm(d.q), r |-> d.r]

RECURSIVE BitLen(_)
BitLen(n) == IF n = 0 THEN 0 ELSE 1 + BitLen(n \div 2)

BigBitLen(b) ==
    IF b = << >> THEN 0 ELSE LimbBits * (Len(b) - 1) + BitLen(b[Len(b)])

\* floor(b / 2^bits), and whether a nonzero bit was dropped
BigShr(b, bits) ==
    LET nl      == bits \div LimbBits
        dropped == SubSeq(b, 1, IF nl < Len(b) THEN nl ELSE Len(b))
        kept    == IF nl < Len(b) THEN SubSeq(b, nl + 1, Len(b)) ELSE << >>
        d       == BigDivSmall(kept, 2 ^ (bits % LimbBits))
    IN  [q |-> d.q,
         sticky |-> d.r # 0 \/ \E i \in 1..Len(dropped) : dropped[i] # 0]

BigIsOdd(b) == b # << >> /\ b[1] % 2 = 1

RECURSIVE BigLess(_, _)
BigLess(a, b) ==
    IF Len(a) # Len(b) THEN Len(a) < Len(b)
    ELSE IF a = << >> THEN FALSE
    ELSE IF a[Len(a)] # b[Len(b)] THEN a[Len(a)] < b[Len(b)]
    ELSE BigLess(SubSeq(a, 1, Len(a) - 1), SubSeq(b, 1, Len(b) - 1))

-----------------------------------------------------------------------------
(***************************************************************************)
(* binary64 values that are finite and >= 0: [m, e] stands for m * 2^e     *)
(* with m below 2^MantBits (or exactly 2^MantBits after a carry).  NaN is  *)
(* the one other value the code can produce (0 / 0).                       *)
(***************************************************************************)
MantBits == 53

NaN == [nan |-> TRUE]
IsNaN(x) == "nan" \in DOMAIN x

\* the binary64 nearest to p * 2^e (ties to even); sticky says that the exact
\* value lies strictly above p * 2^e and below (p + 1) * 2^e
FlRound(p, e, sticky) ==
    LET len == BigBitLen(p)
    IN  IF len <= MantBits THEN [m |-> p, e |-> e]
        ELSE LET d     == len - MantBits
                 s1    == BigShr(p, d - 1)
                 guard == BigIsOdd(s1.q)
                 m     == BigShr(s1.q, 1).q
                 up    == guard /\ (s1.sticky \/ sticky \/ BigIsOdd(m))
             IN  [m |-> IF up THEN BigAdd(m, << 1 >>) ELSE m, e |-> e + d]

\* a / b in binary64, for naturals a and b
FlDivNat(a, b) ==
    IF b = 0 THEN (IF a = 0 THEN NaN ELSE [inf |-> TRUE])
    ELSE LET k == MantBits + 2 + BitLen(b)
             d == BigDivSmall(BigShl(BigOfNat(a), k), b)
         IN  FlRound(d.q, 0 - k, d.r # 0)

FlMul(x, y) == FlRound(BigMul(x.m, y.m), x.e + y.e, FALSE)

FlOfNat(n) == [m |-> BigOfNat(n), e |-> 0]

\* x < y for two finite values
FlLess(x, y) ==
    IF x.e >= y.e THEN BigLess(BigShl(x.m, x.e - y.e), y.m)
    ELSE BigLess(x.m, BigShl(y.m, y.e - x.e))

\* JavaScript's >: false as soon as one side is NaN
FlGreater(x, y) == ~IsNaN(x) /\ ~IsNaN(y) /\ FlLess(y, x)

\* Math.min(x, 1) for x a quotient of naturals: NaN stays NaN
FlMin1(x) ==
    IF IsNaN(x) THEN NaN
    ELSE IF "inf" \in DOMAIN x THEN FlOfNat(1)
    ELSE IF FlLess(FlOfNat(1), x) THEN FlOfNat(1) ELSE x

\* the decimal literals of getVisuals, as the parser rounds them
Lit_1_8 == FlDivNat(18, 10)
Lit_0_8 == FlDivNat(8, 10)
Lit_0_6 == FlDivNat(6, 10)
Lit_0_4 == FlDivNat(4, 10)
Lit_0_2 == FlDivNat(2, 10)

-----------------------------------------------------------------------------
(***************************************************************************)
(* JavaScript objects used as maps (LocationData.parties, .candidates,     *)
(* partyTotals): sequences of [k, v] entries in insertion order, which is  *)
(* the order Object.entries and Object.keys give.                          *)
(***************************************************************************)
HasKey(m, key) == \E i \in 1..Len(m) : m[i].k = key

Lookup(m, key) == m[CHOOSE i \in 1..Len(m) : m[i].k = key].v

\* (m[key] || 0)
OrZero(m, key) == IF HasKey(m, key) THEN Lookup(m, key) ELSE 0

\* m[key] = (m[key] || 0) + v
AddTo(m, key, v) ==
    IF HasKey(m, key)
    THEN [i \in 1..Len(m) |-> IF m[i].k = key THEN [k |-> key, v |-> m[i].v + v] ELSE m[i]]
    ELSE Append(m, [k |-> key, v |-> v])

RECURSIVE SumValues(_)
SumValues(m) == IF m = << >> THEN 0 ELSE m[1].v + SumValues(Tail(m))

RECURSIVE SumTotalVotes(_)
SumTotalVotes(data) ==
    IF data = << >> THEN 0 ELSE data[1].totalVotes + SumTotalVotes(Tail(data))

RECURSIVE MaxTotalVotes(_)
MaxTotalVotes(data) ==
    IF Len(data) = 1 THEN data[1].totalVotes
    ELSE LET rest == MaxTotalVotes(Tail(data))
         IN  IF data[1].totalVotes >= rest THEN data[1].totalVotes ELSE rest

-----------------------------------------------------------------------------
(***************************************************************************)
(* utils/csvParser.aggregateByLocation is not among the sources: it is     *)
(* modelled from the Aggregator's contract.  One LocationData per location *)
(* key in first-seen order; votes summed per party and per candidate;      *)
(* winningParty the party with the largest sum, the first inserted on a    *)
(* tie.                                                                    *)
(***************************************************************************)
SameLocation(loc, r) == loc.name = r.name /\ loc.parentLocation = r.parentLocation

NewLocation(r) ==
    [name |-> r.name, parentLocation |-> r.parentLocation,
     lat |-> r.lat, lng |-> r.lng, totalVotes |-> r.votes,
     parties |-> << [k |-> r.partyName, v |-> r.votes] >>,
     candidates |-> << [k |-> r.candidateName, v |-> r.votes] >>,
     winningParty |-> r.partyName]

RECURSIVE WinnerOf(_)
WinnerOf(m) ==
    IF Len(m) = 1 THEN m[1]
    ELSE LET rest == WinnerOf(Tail(m))
         IN  IF m[1].v >= rest.v THEN m[1] ELSE rest

AddRecord(loc, r) ==
    LET ps == AddTo(loc.parties, r.partyName, r.votes)
    IN  [loc EXCEPT !.totalVotes = @ + r.votes,
                    !.parties = ps,
                    !.candidates = AddTo(@, r.candidateName, r.votes),
                    !.winningParty = WinnerOf(ps).k]

RECURSIVE AggregateInto(_, _)
AggregateInto(acc, records) ==
    IF records = << >> THEN acc
    ELSE LET r == records[1]
         IN  AggregateInto(
                 IF \E i \in 1..Len(acc) : SameLocation(acc[i], r)
                 THEN [i \in 1..Len(acc) |->
                          IF SameLocation(acc[i], r) THEN AddRecord(acc[i], r) ELSE acc[i]]
                 ELSE Append(acc, NewLocation(r)),
                 Tail(records))

aggregateByLocation(records) == AggregateInto(<< >>, records)

\* Array.from(new Set(rawData.map(r => r.partyName))): the options of the selects
uniqueParties(records) == {records[i].partyName : i \in 1..Len(records)}
uniqueCandidates(records) == {records[i].candidateName : i \in 1..Len(records)}

-----------------------------------------------------------------------------
(***************************************************************************)
(* The filter memo (App.tsx:64-81): three passes of Array.filter.          *)
(***************************************************************************)
\* the party predicate gone wrong: the key's presence instead of its tally
PartyPredicateKeyPresent(d, f) == HasKey(d.parties, f.party)

PartyPredicate(d, f) == OrZero(d.parties, f.party) > 0
CandidatePredicate(d, f) == OrZero(d.candidates, f.candidate) > 0
MinVotesPredicate(d, f) == d.totalVotes >= f.minVotes

Keep(data, P(_)) == SelectSeq(data, P)

\* the candidate pass gone wrong: the result built with unshift, so reversed
RECURSIVE Reversed(_)
Reversed(data) == IF data = << >> THEN << >> ELSE Append(Reversed(Tail(data)), data[1])

FilterByCandidateUnshift(data, f) ==
    IF f.candidate # "ALL"
    THEN Reversed(Keep(data, LAMBDA d : OrZero(d.candidates, f.candidate) > 0))
    ELSE data

\* the minimum-vote pass gone wrong: elements spliced out of the array while a
\* forEach walks it, so the element after each removed one is never tested
RECURSIVE SpliceWalk(_, _, _)
SpliceWalk(data, i, f) ==
    IF i > Len(data) THEN data
    ELSE IF data[i].totalVotes >= f.minVotes THEN SpliceWalk(data, i + 1, f)
    ELSE SpliceWalk(SubSeq(data, 1, i - 1) \o SubSeq(data, i + 1, Len(data)), i + 1, f)

FilterByMinVotesSplice(data, f) == SpliceWalk(data, 1, f)

FilterByParty(data, f) ==
    IF f.party # "ALL" THEN Keep(data, LAMBDA d : PartyPredicate(d, f)) ELSE data

FilterByCandidate(data, f) ==
    IF f.candidate # "ALL" THEN Keep(data, LAMBDA d : CandidatePredicate(d, f)) ELSE data

FilterByMinVotes(data, f) == Keep(data, LAMBDA d : MinVotesPredicate(d, f))

FilterLogic(data, f) == FilterByMinVotes(FilterByCandidate(FilterByParty(data, f), f), f)

-----------------------------------------------------------------------------
(***************************************************************************)
(* The analytics memo (App.tsx:84-109).                                    *)
(***************************************************************************)
TopN == 5

\* the inner forEach gone wrong: the test of the selected key left out
RECURSIVE AccumEntriesEvery(_, _, _)
AccumEntriesEvery(totals, entries, selected) ==
    IF entries = << >> THEN totals
    ELSE AccumEntriesEvery(AddTo(totals, entries[1].k, entries[1].v),
                           Tail(entries), selected)

\* the inner forEach over Object.entries of one location's map
RECURSIVE AccumEntries(_, _, _)
AccumEntries(totals, entries, selected) ==
    IF entries = << >> THEN totals
    ELSE AccumEntries(
             IF selected = "ALL" \/ selected = entries[1].k
             THEN AddTo(totals, entries[1].k, entries[1].v) ELSE totals,
             Tail(entries), selected)

RECURSIVE PartyTotals(_, _, _)
PartyTotals(totals, data, f) ==
    IF data = << >> THEN totals
    ELSE PartyTotals(AccumEntries(totals, data[1].parties, f.party), Tail(data), f)

RECURSIVE CandidateTotals(_, _, _)
CandidateTotals(totals, data, f) ==
    IF data = << >> THEN totals
    ELSE CandidateTotals(AccumEntries(totals, data[1].candidates, f.candidate), Tail(data), f)

\* Array.prototype.sort((a, b) => b[1] - a[1]): descending and stable
RECURSIVE InsertDesc(_, _)
InsertDesc(sorted, e) ==
    IF sorted = << >> THEN << e >>
    ELSE IF sorted[1].v >= e.v THEN << sorted[1] >> \o InsertDesc(Tail(sorted), e)
    ELSE << e >> \o sorted

RECURSIVE SortDesc(_)
SortDesc(m) ==
    IF m = << >> THEN << >>
    ELSE InsertDesc(SortDesc(SubSeq(m, 1, Len(m) - 1)), m[Len(m)])

\* slice gone wrong: the end index taken as inclusive
SliceInclusive(m, n) == SubSeq(m, 1, IF Len(m) < n + 1 THEN Len(m) ELSE n + 1)

\* slice(0, n)
Slice(m, n) == SubSeq(m, 1, IF Len(m) < n THEN Len(m) ELSE n)

AnalyticsLogic(data, f) ==
    [topParties    |-> Slice(SortDesc(PartyTotals(<< >>, data, f)), TopN),
     topCandidates |-> Slice(SortDesc(CandidateTotals(<< >>, data, f)), TopN)]

-----------------------------------------------------------------------------
(***************************************************************************)
(* VoteMap (part_000): the party colour table, stats and getVisuals.       *)
(***************************************************************************)
PARTY_COLORS ==
    << [k |-> "PARTIDO CENTRO DEMOCRÁTICO", v |-> "#0ea5e9"],
       [k |-> "PACTO HISTÓRICO",            v |-> "#9333ea"],
       [k |-> "PARTIDO LIBERAL",            v |-> "#ef4444"],
       [k |-> "PARTIDO CONSERVADOR",        v |-> "#1d4ed8"],
       [k |-> "ALIANZA VERDE",              v |-> "#22c55e"],
       [k |-> "DEFAULT",                    v |-> "#64748b"] >>

\* String.prototype.includes
Includes(str, part) ==
    \E i \in 1..(Len(str) - Len(part) + 1) : SubSeq(str, i, i + Len(part) - 1) = part

\* the positions of the spaces of str, and k.split(' ')[1]: the text between
\* the first space and the next one; includes(undefined) searches "undefined"
SpacesOf(str) == {i \in 1..Len(str) : SubSeq(str, i, i) = " "}

Min(S) == CHOOSE x \in S : \A y \in S : x <= y

\* the token gone wrong: k.split(' ')[0]
FirstToken(str) ==
    LET sp == SpacesOf(str)
    IN  IF sp = {} THEN str ELSE SubSeq(str, 1, Min(sp) - 1)

SecondToken(str) ==
    LET sp == SpacesOf(str)
    IN  IF sp = {} THEN "undefined"
        ELSE LET first == Min(sp)
                 later == {i \in sp : i > first}
                 stop  == IF later = {} THEN Len(str) + 1 ELSE Min(later)
             IN  SubSeq(str, first + 1, stop - 1)

\* k.split(' ')[1] for every key of the table
PartyTokens == [i \in 1..Len(PARTY_COLORS) |-> SecondToken(PARTY_COLORS[i].k)]

\* Object.keys(PARTY_COLORS).find(k => party.includes(k.split(' ')[1])) || "DEFAULT"
MatchedKey(party) ==
    LET hits == {i \in 1..Len(PARTY_COLORS) : Includes(party, PartyTokens[i])}
    IN  IF hits = {} THEN "DEFAULT" ELSE PARTY_COLORS[Min(hits)].k

\* the stats memo gone wrong: max accumulates the totals instead of comparing
statsSumAsMax(data) ==
    IF Len(data) = 0 THEN [max |-> 100, avg |-> FlOfNat(0)]
    ELSE [max |-> SumTotalVotes(data),
          avg |-> FlDivNat(SumTotalVotes(data), Len(data))]

\* the stats memo (part_000:51-56)
stats(data) ==
    IF Len(data) = 0 THEN [max |-> 100, avg |-> FlOfNat(0)]
    ELSE [max |-> MaxTotalVotes(data),
          avg |-> FlDivNat(SumTotalVotes(data), Len(data))]

\* loc.totalVotes > (stats.avg * 1.8)
IsAnomaly(loc, st) == FlGreater(FlOfNat(loc.totalVotes), FlMul(st.avg, Lit_1_8))

\* Math.min(loc.totalVotes / stats.max, 1)
Intensity(loc, st) == FlMin1(FlDivNat(loc.totalVotes, st.max))

HeatColor(intensity) ==
    IF FlGreater(intensity, Lit_0_8) THEN "#7f1d1d"
    ELSE IF FlGreater(intensity, Lit_0_6) THEN "#dc2626"
    ELSE IF FlGreater(intensity, Lit_0_4) THEN "#ea580c"
    ELSE IF FlGreater(intensity, Lit_0_2) THEN "#f59e0b"
    ELSE "#fbbf24"

\* the radius is kept as the expression the code evaluates: a constant, or
\* 4 + (Math.sqrt(v) * 0.8)
ScaledRadius(v) == [fn |-> "4+sqrt(v)*0.8", v |-> v]
FixedRadius(r) == [fn |-> "const", v |-> r]

getVisuals(loc, mode, st) ==
    IF mode = "heatmap"
    THEN [radius |-> ScaledRadius(loc.totalVotes),
          color |-> HeatColor(Intensity(loc, st)), opacity |-> "0.6", stroke |-> FALSE]
    ELSE IF mode = "party"
    THEN LET party == IF loc.winningParty = "" THEN "DEFAULT" ELSE loc.winningParty
         IN  [radius |-> FixedRadius(8),
              color |-> IF HasKey(PARTY_COLORS, MatchedKey(party))
                        THEN Lookup(PARTY_COLORS, MatchedKey(party))
                        ELSE Lookup(PARTY_COLORS, "DEFAULT"),
              opacity |-> "0.8", stroke |-> FALSE]
    ELSE IF mode = "audit"
    THEN LET isAnomaly == IsAnomaly(loc, st)
         IN  [radius |-> FixedRadius(IF isAnomaly THEN 15 ELSE 5),
              color |-> IF isAnomaly THEN "#ef4444" ELSE "#10b981",
              opacity |-> IF isAnomaly THEN "0.9" ELSE "0.4",
              stroke |-> isAnomaly]
    ELSE [radius |-> ScaledRadius(loc.totalVotes),
          color |-> "#fbbf24", opacity |-> "0.6", stroke |-> FALSE]

\* data.map((loc, idx) => ... getVisuals(loc) ...) (part_000:107-108)
MarkersOf(data, mode) ==
    LET st == stats(data)
    IN  [i \in 1..Len(data) |-> getVisuals(data[i], mode, st)]

-----------------------------------------------------------------------------
(***************************************************************************)
(* Inputs.  A file is held as the records parseCSV gives for it (parsing   *)
(* is outside the sources); a location's coordinates follow its number.    *)
(***************************************************************************)
MaxDrift == 4     \* votes the live stream may add to one location
MaxCalls == 2     \* sendMessageToChat calls started in one run
MaxLocs == 2      \* locations of a generated aggregate (filter inputs)
MaxTally == 1     \* votes of one generated record (filter inputs)
MaxMinVotes == 2  \* the minVotes of a generated FilterState
MaxMarkers == 3   \* locations of a generated aggregate (classifier inputs)
MaxTotal == 5     \* totalVotes of a generated location (classifier inputs)

Mesa(i) == << "MESA 1", "MESA 2", "MESA 3", "MESA 4", "MESA 5", "MESA 6",
              "MESA 7", "MESA 8", "MESA 9", "MESA 10", "MESA 11", "MESA 12" >>[i]

Row(i, party, candidate, votes) ==
    [name |-> Mesa(i), parentLocation |-> "MEDELLIN", lat |-> 6200 + i, lng |-> i - 75600,
     partyName |-> party, candidateName |-> candidate, votes |-> votes]

FileEmpty == << >>

\* MESA 2 has a PARTIDO LIBERAL entry with no votes
FileA ==
    << Row(1, "PARTIDO LIBERAL", "GOMEZ", 2), Row(1, "ALIANZA VERDE", "RUIZ", 1),
       Row(2, "ALIANZA VERDE", "RUIZ", 1),    Row(2, "PARTIDO LIBERAL", "GOMEZ", 0) >>

FileB ==
    << Row(3, "MIRA", "DIAZ", 2), Row(1, "PARTIDO LIBERAL", "LOPEZ", 1),
       Row(3, "PARTIDO LIBERAL", "LOPEZ", 1) >>

Files == {FileEmpty, FileA, FileB}

\* SAMPLE_CSV_DATA (constants, outside the sources) seeds the dashboard: a
\* sample holds records
Samples == Files \ {FileEmpty}

ViewModes == {"heatmap", "party", "audit"}

NoFilter == [minVotes |-> 0, party |-> "ALL", candidate |-> "ALL"]

-----------------------------------------------------------------------------
(***************************************************************************)
(* The App component: state after construction, then one action per        *)
(* handler, effect or callback.  The memos and VoteMap's markers are       *)
(* recomputed by the render that follows every state change.               *)
(***************************************************************************)
Welcome == [role |-> "model", text |-> "welcome"]

Init ==
    /\ rawData = << >>
    /\ aggregatedData = << >>
    /\ viewMode = "heatmap"
    /\ filters = NoFilter
    /\ isLive = FALSE
    /\ dataSource = "CSV"
    /\ messages = << >>
    /\ inputValue = ""
    /\ isTyping = FALSE
    /\ calls = << >>
    /\ filteredData = << >>
    /\ analytics = [topParties |-> << >>, topCandidates |-> << >>]
    /\ markers = << >>
    /\ mounted = FALSE

Render ==
    /\ filteredData' = FilterLogic(aggregatedData', filters')
    /\ analytics' = AnalyticsLogic(filteredData', filters')
    /\ markers' = MarkersOf(filteredData', viewMode')

\* the Initialize Chat effect (App.tsx:113-124), run when aggregatedData changes
InitializeChat ==
    messages' = IF Len(aggregatedData') > 0 /\ Len(messages) = 0
                THEN << Welcome >> ELSE messages

\* setRawData(parsed); setAggregatedData(aggregateByLocation(parsed))
LoadRecords(parsed) ==
    /\ rawData' = parsed
    /\ aggregatedData' = aggregateByLocation(parsed)
    /\ InitializeChat
    /\ UNCHANGED << viewMode, filters, isLive, dataSource, inputValue, isTyping, calls >>
    /\ Render

\* the Data Loading effect (App.tsx:50-61) on parseCSV(SAMPLE_CSV_DATA)
DataLoading(sample) ==
    /\ ~mounted
    /\ mounted' = TRUE
    /\ LoadRecords(sample)

\* the upload gone wrong: the filters reset with the new data
handleFileUploadClearingFilters(file) ==
    /\ mounted
    /\ UNCHANGED mounted
    /\ rawData' = file
    /\ aggregatedData' = aggregateByLocation(file)
    /\ filters' = NoFilter
    /\ InitializeChat
    /\ UNCHANGED << viewMode, isLive, dataSource, inputValue, isTyping, calls >>
    /\ Render

\* handleFileUpload, at reader.onload (App.tsx:161-173)
handleFileUpload(file) ==
    /\ mounted
    /\ UNCHANGED mounted
    /\ LoadRecords(file)

SetPartyFilter(p) ==
    /\ mounted
    /\ p \in {"ALL"} \cup uniqueParties(rawData)
    /\ filters' = [filters EXCEPT !.party = p]
    /\ UNCHANGED << rawData, aggregatedData, viewMode, isLive, dataSource,
                    messages, inputValue, isTyping, calls, mounted >>
    /\ Render

SetCandidateFilter(c) ==
    /\ mounted
    /\ c \in {"ALL"} \cup uniqueCandidates(rawData)
    /\ filters' = [filters EXCEPT !.candidate = c]
    /\ UNCHANGED << rawData, aggregatedData, viewMode, isLive, dataSource,
                    messages, inputValue, isTyping, calls, mounted >>
    /\ Render

\* the view-mode buttons gone wrong: the click also clears the filters
SetViewModeClearingFilters(m) ==
    /\ mounted
    /\ viewMode' = m
    /\ filters' = NoFilter
    /\ UNCHANGED << rawData, aggregatedData, isLive, dataSource,
                    messages, inputValue, isTyping, calls, mounted >>
    /\ Render

\* the view-mode buttons (App.tsx:239-247)
SetViewMode(m) ==
    /\ mounted
    /\ viewMode' = m
    /\ UNCHANGED << rawData, aggregatedData, filters, isLive, dataSource,
                    messages, inputValue, isTyping, calls, mounted >>
    /\ Render

\* the "Carga CSV" button gone wrong: setIsLive(false) left out
SelectCSVKeepingLive ==
    /\ mounted
    /\ dataSource' = "CSV"
    /\ UNCHANGED << rawData, aggregatedData, viewMode, filters, isLive, messages, inputValue,
                    isTyping, calls, filteredData, analytics, markers, mounted >>

\* the "Carga CSV" button (App.tsx:188)
SelectCSV ==
    /\ mounted
    /\ dataSource' = "CSV"
    /\ isLive' = FALSE
    /\ UNCHANGED << rawData, aggregatedData, viewMode, filters, messages, inputValue,
                    isTyping, calls, filteredData, analytics, markers, mounted >>

\* the "E-14 Real-Time" button (App.tsx:194)
SelectStream ==
    /\ mounted
    /\ dataSource' = "E14_STREAM"
    /\ UNCHANGED << rawData, aggregatedData, viewMode, filters, isLive, messages, inputValue,
                    isTyping, calls, filteredData, analytics, markers, mounted >>

\* the Pausar / Iniciar button, rendered only for the stream source (App.tsx:202-206)
ToggleLive ==
    /\ mounted
    /\ dataSource = "E14_STREAM"
    /\ isLive' = ~isLive
    /\ UNCHANGED << rawData, aggregatedData, viewMode, filters, dataSource, messages,
                    inputValue, isTyping, calls, filteredData, analytics, markers, mounted >>

\* Math.floor(Math.random() * 5), or no increase when Math.random() > 0.7 fails
IncreaseRange == 5
Increases == 0..(IncreaseRange - 1)

\* the tick gone wrong: the increase also added to the first party tally
IncreasedWithTally(loc, increase) ==
    [loc EXCEPT !.totalVotes = @ + increase, !.parties[1].v = @ + increase]

\* { ...loc, totalVotes: loc.totalVotes + increase }
Increased(loc, increase) == [loc EXCEPT !.totalVotes = @ + increase]

Drift(loc) == loc.totalVotes - SumValues(loc.parties)

\* one run of the interval callback (App.tsx:130-139)
Tick ==
    /\ mounted
    /\ isLive /\ dataSource = "E14_STREAM"
    /\ \E inc \in [1..Len(aggregatedData) -> Increases] :
          /\ \A i \in 1..Len(aggregatedData) : Drift(aggregatedData[i]) + inc[i] <= MaxDrift
          /\ aggregatedData' =
                 [i \in 1..Len(aggregatedData) |-> Increased(aggregatedData[i], inc[i])]
    /\ InitializeChat
    /\ UNCHANGED << rawData, viewMode, filters, isLive, dataSource,
                    inputValue, isTyping, calls, mounted >>
    /\ Render

-----------------------------------------------------------------------------
(***************************************************************************)
(* The chat.  services/geminiService.sendMessageToChat is not among the    *)
(* sources: a call is pending until the assistant answers, and then either *)
(* returns a response or fails (the await of App.tsx:155 throws).          *)
(***************************************************************************)
QuickTexts ==
    { "Analiza las discrepancias entre los formularios E-14 y E-24 en la Comuna 14.",
      "Genera un reporte de las mesas con más del 90% de participación (posible anomalía)." }

InputTexts == {"   ", "mesa 12"}

\* !text.trim()
IsBlank(text) == \A i \in 1..Len(text) : SubSeq(text, i, i) = " "

CallOutcomes == {"returned", "failed"}

\* handleSendMessage up to its await (App.tsx:149-155)
handleSendMessage(text) ==
    /\ mounted
    /\ ~IsBlank(text)
    /\ Len(calls) < MaxCalls
    /\ messages' = Append(messages, [role |-> "user", text |-> text])
    /\ inputValue' = ""
    /\ isTyping' = TRUE
    /\ calls' = Append(calls, [text |-> text, status |-> "pending"])
    /\ UNCHANGED << rawData, aggregatedData, viewMode, filters, isLive, dataSource,
                    filteredData, analytics, markers, mounted >>

\* the input's onChange (App.tsx:409)
TypeInput(text) ==
    /\ mounted
    /\ inputValue' = text
    /\ UNCHANGED << rawData, aggregatedData, viewMode, filters, isLive, dataSource, messages,
                    isTyping, calls, filteredData, analytics, markers, mounted >>

\* the form's onSubmit; the submit button is disabled={!inputValue.trim() || isTyping},
\* and a form whose default button is disabled is not submitted (App.tsx:405-415)
SubmitForm ==
    /\ ~(IsBlank(inputValue) \/ isTyping)
    /\ handleSendMessage(inputValue)

\* the two Auditoría Rápida buttons (App.tsx:346-354)
QuickAction(text) == handleSendMessage(text)

\* handleSendMessage after its await, when the call returns (App.tsx:156-158)
CallReturns(i) ==
    /\ calls[i].status = "pending"
    /\ calls' = [calls EXCEPT ![i].status = "returned"]
    /\ messages' = Append(messages, [role |-> "model", text |-> "response", call |-> i])
    /\ isTyping' = FALSE
    /\ UNCHANGED << rawData, aggregatedData, viewMode, filters, isLive, dataSource,
                    inputValue, filteredData, analytics, markers, mounted >>

\* the await throws: the handler's promise rejects and nothing after line 155 runs
CallFails(i) ==
    /\ calls[i].status = "pending"
    /\ calls' = [calls EXCEPT ![i].status = "failed"]
    /\ UNCHANGED << rawData, aggregatedData, viewMode, filters, isLive, dataSource, messages,
                    inputValue, isTyping, filteredData, analytics, markers, mounted >>

CallEnds(i, outcome) ==
    IF outcome = "returned" THEN CallReturns(i) ELSE CallFails(i)

-----------------------------------------------------------------------------
(***************************************************************************)
(* Spec: the data side of the dashboard (loading, upload, filters, view    *)
(* mode, data source, live stream).  SpecChat: loading, upload and the     *)
(* chat.  The two sides share no handler, and the only state one side      *)
(* reads of the other is aggregatedData.length in the Initialize Chat      *)
(* effect, which both specifications run.                                  *)
(***************************************************************************)
Next ==
    \/ \E f \in Samples : DataLoading(f)
    \/ \E f \in Files : handleFileUpload(f)
    \/ \E p \in {"ALL"} \cup uniqueParties(rawData) : SetPartyFilter(p)
    \/ \E c \in {"ALL"} \cup uniqueCandidates(rawData) : SetCandidateFilter(c)
    \/ \E m \in ViewModes : SetViewMode(m)
    \/ SelectCSV
    \/ SelectStream
    \/ ToggleLive
    \/ Tick

Spec == Init /\ [][Next]_vars

NextChat ==
    \/ \E f \in Samples : DataLoading(f)
    \/ \E f \in Files : handleFileUpload(f)
    \/ \E text \in InputTexts : TypeInput(text)
    \/ SubmitForm
    \/ \E text \in QuickTexts : QuickAction(text)
    \/ \E i \in 1..Len(calls), outcome \in CallOutcomes : CallEnds(i, outcome)

SpecChat == Init /\ [][NextChat]_vars

-----------------------------------------------------------------------------
(***************************************************************************)
(* SpecOffline: an audit session on uploaded files, the live stream never  *)
(* started.  Its files add two precinct sets to those of Spec.             *)
(***************************************************************************)
\* the totals 10, 10, 50 of the classifier's audit example
FileC ==
    << Row(1, "PARTIDO LIBERAL", "GOMEZ", 10), Row(2, "ALIANZA VERDE", "RUIZ", 10),
       Row(3, "PARTIDO LIBERAL", "GOMEZ", 50) >>

\* nine PARTIDO LIBERAL precincts with 305 votes, one of them with 61, and a
\* tenth precinct of another party
FileD ==
    << Row(1, "PARTIDO LIBERAL", "GOMEZ", 61), Row(2, "PARTIDO LIBERAL", "GOMEZ", 31),
       Row(3, "PARTIDO LIBERAL", "GOMEZ", 31), Row(4, "PARTIDO LIBERAL", "GOMEZ", 31),
       Row(5, "PARTIDO LIBERAL", "GOMEZ", 31), Row(6, "PARTIDO LIBERAL", "GOMEZ", 30),
       Row(7, "PARTIDO LIBERAL", "GOMEZ", 30), Row(8, "PARTIDO LIBERAL", "GOMEZ", 30),
       Row(9, "PARTIDO LIBERAL", "GOMEZ", 30), Row(10, "ALIANZA VERDE", "RUIZ", 5) >>

AuditFiles == Files \cup {FileC, FileD}

NextOffline ==
    \/ \E f \in Samples : DataLoading(f)
    \/ \E f \in AuditFiles : handleFileUpload(f)
    \/ \E p \in {"ALL"} \cup uniqueParties(rawData) : SetPartyFilter(p)
    \/ \E c \in {"ALL"} \cup uniqueCandidates(rawData) : SetCandidateFilter(c)
    \/ \E m \in ViewModes : SetViewMode(m)

SpecOffline == Init /\ [][NextOffline]_vars

-----------------------------------------------------------------------------
(***************************************************************************)
(* SpecFilter and SpecClassify: the filter and the classifier as           *)
(* functions of their inputs.  The component is mounted on a generated     *)
(* record set; SpecFilter then walks through the FilterStates (the         *)
(* threshold included, for which the page renders no control),             *)
(* SpecClassify through the view modes.                                    *)
(***************************************************************************)
\* setFilters({ ...filters, minVotes: n })
SetMinVotes(n) ==
    /\ mounted
    /\ filters' = [filters EXCEPT !.minVotes = n]
    /\ UNCHANGED << rawData, aggregatedData, viewMode, isLive, dataSource,
                    messages, inputValue, isTyping, calls, mounted >>
    /\ Render

GenCandidates == << [party |-> "PARTIDO LIBERAL", candidate |-> "GOMEZ"],
                    [party |-> "ALIANZA VERDE",   candidate |-> "RUIZ"] >>

\* what a location may hold for a candidate: no record (-1), a record with no
\* votes, a record with MaxTally votes
TallyChoices == {-1, 0, MaxTally}

\* the records of a choice of tallies
RECURSIVE RowsFrom(_, _, _)
RowsFrom(tally, i, j) ==
    IF i > MaxLocs THEN << >>
    ELSE IF j > Len(GenCandidates) THEN RowsFrom(tally, i + 1, 1)
    ELSE (IF tally[i][j] < 0 THEN << >>
          ELSE << Row(i, GenCandidates[j].party, GenCandidates[j].candidate, tally[i][j]) >>)
         \o RowsFrom(tally, i, j + 1)

FilterRecords ==
    {RowsFrom(tally, 1, 1) :
        tally \in [1..MaxLocs -> [1..Len(GenCandidates) -> TallyChoices]]}

NextFilter ==
    \/ \E records \in FilterRecords : DataLoading(records)
    \/ \E p \in {"ALL"} \cup uniqueParties(rawData) : SetPartyFilter(p)
    \/ \E c \in {"ALL"} \cup uniqueCandidates(rawData) : SetCandidateFilter(c)
    \/ \E n \in 0..MaxMinVotes : SetMinVotes(n)

SpecFilter == Init /\ [][NextFilter]_vars

\* one record per location: the location's total, for a party that follows
\* the location's number
GenParties == << "PARTIDO LIBERAL", "ALIANZA VERDE", "MIRA" >>

TotalsRecords(totals) ==
    [i \in 1..Len(totals) |->
        Row(i, GenParties[(i % Len(GenParties)) + 1], "GOMEZ", totals[i])]

ClassifyRecords ==
    {TotalsRecords(totals) :
        totals \in UNION {[1..n -> 0..MaxTotal] : n \in 0..MaxMarkers}}
    \cup {FileC}

NextClassify ==
    \/ \E records \in ClassifyRecords : DataLoading(records)
    \/ \E m \in ViewModes : SetViewMode(m)

SpecClassify == Init /\ [][NextClassify]_vars

-----------------------------------------------------------------------------
(***************************************************************************)
(* SpecRollup: the top lists on a file with more parties and candidates    *)
(* than a list shows, under the filters and the live stream.               *)
(***************************************************************************)
\* six parties, each with its candidate, at two precincts; two parties tie
\* and CAMBIO RADICAL has votes at MESA 2 only
FileE ==
    << Row(1, "ALIANZA VERDE", "RUIZ", 1),       Row(1, "PARTIDO LIBERAL", "GOMEZ", 3),
       Row(1, "MIRA", "DIAZ", 0),                Row(1, "PACTO HISTÓRICO", "LOPEZ", 2),
       Row(1, "PARTIDO CONSERVADOR", "PEREZ", 2), Row(2, "CAMBIO RADICAL", "MEJIA", 4),
       Row(2, "ALIANZA VERDE", "RUIZ", 2),       Row(2, "PARTIDO LIBERAL", "GOMEZ", 0) >>

RollupFiles == {FileA, FileE}

NextRollup ==
    \/ \E f \in RollupFiles : DataLoading(f)
    \/ \E f \in RollupFiles : handleFileUpload(f)
    \/ \E p \in {"ALL"} \cup uniqueParties(rawData) : SetPartyFilter(p)
    \/ \E c \in {"ALL"} \cup uniqueCandidates(rawData) : SetCandidateFilter(c)
    \/ SelectCSV
    \/ SelectStream
    \/ ToggleLive
    \/ Tick

SpecRollup == Init /\ [][NextRollup]_vars

-----------------------------------------------------------------------------
(***************************************************************************)
(* SpecParty: the party colouring over winning-party names: the table's    *)
(* keys, names that hold a token inside a longer word or hold two tokens,  *)
(* a key in another case, names without a token, and no name.              *)
(***************************************************************************)
MaxWinners == 2   \* locations of a generated aggregate (party colouring)

PartyNames ==
    { "PARTIDO CENTRO DEMOCRÁTICO", "PACTO HISTÓRICO", "PARTIDO LIBERAL",
      "PARTIDO CONSERVADOR", "ALIANZA VERDE", "NUEVO LIBERALISMO",
      "COALICIÓN VERDE CENTRO", "Partido Liberal", "MIRA", "undefined", "" }

\* one record, with one vote, per location
WinnerRecords(names) == [i \in 1..Len(names) |-> Row(i, names[i], "GOMEZ", 1)]

PartyRecords ==
    {WinnerRecords(names) : names \in UNION {[1..n -> PartyNames] : n \in 1..MaxWinners}}

NextParty ==
    \/ \E records \in PartyRecords : DataLoading(records)
    \/ \E m \in ViewModes : SetViewMode(m)

SpecParty == Init /\ [][NextParty]_vars

-----------------------------------------------------------------------------
(***************************************************************************)
(* The properties.  What they say of a tally, of the visible set and of    *)
(* the audit threshold is written here on its own, in exact arithmetic.    *)
(***************************************************************************)
Range(seq) == {seq[i] : i \in 1..Len(seq)}

PositiveTally(m, key) == \E i \in 1..Len(m) : m[i].k = key /\ m[i].v > 0

PassesParty(d) == filters.party = "ALL" \/ PositiveTally(d.parties, filters.party)
PassesCandidate(d) == filters.candidate = "ALL" \/ PositiveTally(d.candidates, filters.candidate)
PassesMinVotes(d) == d.totalVotes >= filters.minVotes

VisibleSet ==
    {d \in Range(aggregatedData) : PassesParty(d) /\ PassesCandidate(d) /\ PassesMinVotes(d)}

\* C1: the visible set is exactly the locations that pass the party, the
\* candidate and the minimum-vote predicate together; with a party selected,
\* candidate ALL and minVotes 0 it is the locations with a strictly positive
\* tally for that party.
C1_VisibleSetIsConjunction ==
    /\ Range(filteredData) = VisibleSet
    /\ Len(filteredData) = Cardinality(VisibleSet)
    /\ (filters.party # "ALL" /\ filters.candidate = "ALL" /\ filters.minVotes = 0
            => Range(filteredData) =
                   {d \in Range(aggregatedData) : PositiveTally(d.parties, filters.party)})

\* a location with a zero entry for the selected party is dropped, another is kept
C1_Witness ==
    /\ filters.party # "ALL" /\ filters.candidate # "ALL" /\ filters.minVotes > 0
    /\ Len(filteredData) = 1 /\ Len(aggregatedData) = 2
    /\ \E d \in Range(aggregatedData) :
          HasKey(d.parties, filters.party) /\ ~PositiveTally(d.parties, filters.party)

Outstanding == {i \in 1..Len(calls) : calls[i].status = "pending"}

\* C2: at most one sendMessageToChat call has started and not yet returned.
C2_AtMostOneOutstanding == Cardinality(Outstanding) <= 1

\* C3: whenever a sendMessageToChat call ends, returned or failed, the handler
\* sets isTyping to false and appends a model-role message to the transcript.
C3_EndedCallAnswered ==
    [][\A i \in 1..Len(calls) :
          (calls[i].status = "pending" /\ calls'[i].status # "pending")
              => /\ isTyping' = FALSE
                 /\ Len(messages') = Len(messages) + 1
                 /\ messages'[Len(messages')].role = "model"]_vars

\* C4: every LocationData of the aggregate has totalVotes equal to the sum of
\* its party tallies and to the sum of its candidate tallies.
C4_TotalsMatchTallies ==
    \A i \in 1..Len(aggregatedData) :
        /\ aggregatedData[i].totalVotes = SumValues(aggregatedData[i].parties)
        /\ aggregatedData[i].totalVotes = SumValues(aggregatedData[i].candidates)

\* C5: a live-stream tick keeps the length and the positions of the aggregate;
\* each location's totalVotes grows by an integer in 0..4 and its other fields,
\* the party and candidate tallies among them, stay as they were.
C5_TickOnlyRaisesTotals ==
    [][Tick =>
          /\ Len(aggregatedData') = Len(aggregatedData)
          /\ \A i \in 1..Len(aggregatedData) :
                LET old == aggregatedData[i]
                    new == aggregatedData'[i]
                IN  /\ new.totalVotes >= old.totalVotes
                    /\ new.totalVotes - old.totalVotes \in 0..4
                    /\ new.name = old.name
                    /\ new.parentLocation = old.parentLocation
                    /\ new.lat = old.lat /\ new.lng = old.lng
                    /\ new.winningParty = old.winningParty
                    /\ new.parties = old.parties
                    /\ new.candidates = old.candidates]_vars

\* one location has received the largest increase and another none
C5_Witness ==
    /\ isLive /\ dataSource = "E14_STREAM"
    /\ \E i, j \in 1..Len(aggregatedData) :
          /\ Drift(aggregatedData[i]) = IncreaseRange - 1
          /\ Drift(aggregatedData[j]) = 0

ExactSum(data) == SumTotalVotes(data)

\* totalVotes > 1.8 * (sum / n), in integers
ExceedsThreshold(d, data) == 10 * d.totalVotes * Len(data) > 18 * ExactSum(data)

AnomalousLook ==
    [radius |-> [fn |-> "const", v |-> 15], color |-> "#ef4444", opacity |-> "0.9", stroke |-> TRUE]
CalmLook ==
    [radius |-> [fn |-> "const", v |-> 5], color |-> "#10b981", opacity |-> "0.4", stroke |-> FALSE]

\* C6: in audit mode a location of the visible set is anomalous exactly when
\* its totalVotes is strictly greater than 1.8 times the average of the set
\* (10 * totalVotes * n > 18 * sum); anomalous: radius 15, alert colour,
\* opacity 0.9, stroke; otherwise radius 5, OK colour, opacity 0.4, no stroke.
C6_AuditThreshold ==
    viewMode = "audit" =>
        \A i \in 1..Len(filteredData) :
            markers[i] = IF ExceedsThreshold(filteredData[i], filteredData)
                         THEN AnomalousLook ELSE CalmLook

VisibleSeq == SelectSeq(aggregatedData, LAMBDA d : d \in VisibleSet)

\* C7: the locations flagged anomalous are those of the current filtered set
\* whose totalVotes exceeds 1.8 times the mean totalVotes of that filtered set,
\* never of the whole aggregate.
C7_FlaggedOverVisibleSet ==
    viewMode = "audit" =>
        {filteredData[i].name : i \in {j \in 1..Len(markers) : markers[j].stroke}}
            = {d.name : d \in {v \in VisibleSet : ExceedsThreshold(v, VisibleSeq)}}

MaxOf(data) == CHOOSE t \in {d.totalVotes : d \in Range(data)} :
                   \A d \in Range(data) : d.totalVotes <= t

Darkest == "#7f1d1d"
Lightest == "#fbbf24"

\* C8 as stated: in heat mode, for every non-empty visible set, a location
\* with the maximum totalVotes is in the top band, a location with 0 votes in
\* the lowest band, and emphasize is false for every location.
C8_HeatBandsAsStated ==
    (viewMode = "heatmap" /\ Len(filteredData) > 0) =>
        \A i \in 1..Len(filteredData) :
            /\ filteredData[i].totalVotes = MaxOf(filteredData) => markers[i].color = Darkest
            /\ filteredData[i].totalVotes = 0 => markers[i].color = Lightest
            /\ markers[i].stroke = FALSE

\* C8 amended: the top band is that of a location with the maximum totalVotes
\* when that maximum is strictly positive; a location with 0 votes is in the
\* lowest band, also when every total of the set is 0; emphasize is false.
C8_HeatBands ==
    (viewMode = "heatmap" /\ Len(filteredData) > 0) =>
        \A i \in 1..Len(filteredData) :
            /\ (filteredData[i].totalVotes = MaxOf(filteredData) /\ MaxOf(filteredData) > 0)
                   => markers[i].color = Darkest
            /\ filteredData[i].totalVotes = 0 => markers[i].color = Lightest
            /\ markers[i].stroke = FALSE

\* a set with a positive maximum, a location at the maximum and one with no votes
C8_Witness ==
    /\ viewMode = "heatmap"
    /\ \E i, j \in 1..Len(filteredData) :
          /\ filteredData[i].totalVotes = MaxOf(filteredData)
          /\ filteredData[i].totalVotes > 0
          /\ markers[i].color = Darkest
          /\ filteredData[j].totalVotes = 0
          /\ markers[j].color = Lightest

\* C9: filtering the filtered set again with the same FilterState gives the
\* filtered set.
C9_FilterIdempotent == FilterLogic(filteredData, filters) = filteredData

\* all three predicates are active and the filter has dropped a location
C9_Witness ==
    /\ filters.party # "ALL" /\ filters.candidate # "ALL" /\ filters.minVotes > 0
    /\ Len(filteredData) > 0
    /\ Len(filteredData) < Len(aggregatedData)

PositionIn(data, d) == CHOOSE i \in 1..Len(data) : data[i] = d

\* C10: the three passes give the same result in each of their six orders,
\* and the result is a subsequence of the aggregate: locations that pass keep
\* their relative order.
C10_OrderIndependent ==
    LET P(x) == FilterByParty(x, filters)
        C(x) == FilterByCandidate(x, filters)
        M(x) == FilterByMinVotes(x, filters)
        S    == aggregatedData
    IN  /\ filteredData = M(C(P(S)))
        /\ filteredData = M(P(C(S)))
        /\ filteredData = C(M(P(S)))
        /\ filteredData = C(P(M(S)))
        /\ filteredData = P(M(C(S)))
        /\ filteredData = P(C(M(S)))
        /\ Range(filteredData) \subseteq Range(S)
        /\ \A i, j \in 1..Len(filteredData) :
              i < j => PositionIn(S, filteredData[i]) < PositionIn(S, filteredData[j])

\* two locations pass all three active predicates
C10_Witness ==
    /\ filters.party # "ALL" /\ filters.candidate # "ALL" /\ filters.minVotes > 0
    /\ Len(filteredData) >= 2

\* a key's votes summed over the locations of data, and the keys that occur
RECURSIVE TallyOver(_, _)
TallyOver(m, key) ==
    IF m = << >> THEN 0
    ELSE (IF m[1].k = key THEN m[1].v ELSE 0) + TallyOver(Tail(m), key)

RECURSIVE PartySum(_, _)
PartySum(data, key) ==
    IF data = << >> THEN 0
    ELSE TallyOver(data[1].parties, key) + PartySum(Tail(data), key)

RECURSIVE CandidateSum(_, _)
CandidateSum(data, key) ==
    IF data = << >> THEN 0
    ELSE TallyOver(data[1].candidates, key) + CandidateSum(Tail(data), key)

PartyKeys(data) == UNION {{e.k : e \in Range(d.parties)} : d \in Range(data)}
CandidateKeys(data) == UNION {{e.k : e \in Range(d.candidates)} : d \in Range(data)}

ShownOf(n) == IF n < 5 THEN n ELSE 5

NonIncreasing(list) == \A i \in 1..(Len(list) - 1) : list[i].v >= list[i + 1].v

DistinctKeys(list) == \A i, j \in 1..Len(list) : list[i].k = list[j].k => i = j

\* C11: with no party filter, topParties has at most 5 entries, is sorted
\* non-increasing by votes, each entry is the sum of one party's tally over
\* the locations of the set, and the entries sum to at most the sum of
\* totalVotes over the set; also after live-stream ticks.
C11_TopPartiesUnfiltered ==
    filters.party = "ALL" =>
        LET top == analytics.topParties
        IN  /\ Len(top) <= 5
            /\ Len(top) = ShownOf(Cardinality(PartyKeys(filteredData)))
            /\ NonIncreasing(top)
            /\ DistinctKeys(top)
            /\ \A i \in 1..Len(top) :
                   /\ top[i].k \in PartyKeys(filteredData)
                   /\ top[i].v = PartySum(filteredData, top[i].k)
            /\ SumValues(top) <= SumTotalVotes(filteredData)

\* six parties are visible, five are listed, two of them tied, and the stream
\* has added votes
C11_Witness ==
    /\ filters.party = "ALL"
    /\ Cardinality(PartyKeys(filteredData)) = 6
    /\ Len(analytics.topParties) = 5
    /\ analytics.topParties[2].v = analytics.topParties[3].v
    /\ analytics.topParties[1].v > analytics.topParties[5].v
    /\ \E i \in 1..Len(filteredData) : Drift(filteredData[i]) > 0

\* C12: with a party selected, topParties has at most one entry, the selected
\* party with its tally summed over the filtered locations; likewise
\* topCandidates with a candidate selected; the list of a dimension that is
\* not filtered holds the sums of its keys over the filtered locations.
C12_SelectedKeyOnly ==
    LET tp == analytics.topParties
        tc == analytics.topCandidates
    IN  /\ filters.party # "ALL" =>
               /\ Len(tp) <= 1
               /\ Len(tp) = 0 <=> filteredData = << >>
               /\ \A i \in 1..Len(tp) :
                      /\ tp[i].k = filters.party
                      /\ tp[i].v = PartySum(filteredData, filters.party)
        /\ filters.candidate # "ALL" =>
               /\ Len(tc) <= 1
               /\ Len(tc) = 0 <=> filteredData = << >>
               /\ \A i \in 1..Len(tc) :
                      /\ tc[i].k = filters.candidate
                      /\ tc[i].v = CandidateSum(filteredData, filters.candidate)
        /\ filters.party = "ALL" =>
               /\ Len(tp) = ShownOf(Cardinality(PartyKeys(filteredData)))
               /\ DistinctKeys(tp)
               /\ \A i \in 1..Len(tp) : tp[i].v = PartySum(filteredData, tp[i].k)
        /\ filters.candidate = "ALL" =>
               /\ Len(tc) = ShownOf(Cardinality(CandidateKeys(filteredData)))
               /\ DistinctKeys(tc)
               /\ \A i \in 1..Len(tc) : tc[i].v = CandidateSum(filteredData, tc[i].k)

\* a party is selected, the filtered locations hold other parties too, and
\* the candidate list, not filtered, has more than one entry
C12_Witness ==
    /\ filters.party # "ALL" /\ filters.candidate = "ALL"
    /\ Len(analytics.topParties) = 1
    /\ Cardinality(PartyKeys(filteredData)) > 1
    /\ Len(filteredData) = 2
    /\ Len(analytics.topCandidates) > 1

\* C13: while a sendMessageToChat call has started and not yet returned, the
\* in-flight indicator is shown and the submit button is disabled: isTyping
\* is true.
C13_OutstandingShowsTyping == Outstanding # {} => isTyping

\* C14: a view-mode change leaves rawData, aggregatedData, filters, the
\* visible set and the analytics lists as they were; after every step the
\* visible set is still the filter of the aggregate, no location changed by
\* its classification, and the attributes shown are those that the mode and
\* the visible set determine.
C14_ViewModeOnlyReclassifies ==
    [][/\ viewMode' # viewMode =>
              UNCHANGED << rawData, aggregatedData, filters, filteredData, analytics >>
       /\ filteredData' = FilterLogic(aggregatedData', filters')
       /\ markers' = [i \in 1..Len(filteredData') |->
                         getVisuals(filteredData'[i], viewMode', stats(filteredData'))]]_vars

\* audit mode has been selected on a filtered set, one location is flagged
\* and another is not
C14_Witness ==
    /\ viewMode = "audit"
    /\ filters.party # "ALL"
    /\ 0 < Len(filteredData) /\ Len(filteredData) < Len(aggregatedData)
    /\ \E i, j \in 1..Len(markers) : markers[i].stroke /\ ~markers[j].stroke

\* the party table as the claim reads it: token and colour, in table order
TokenColours ==
    << [token |-> "CENTRO",      color |-> "#0ea5e9"],
       [token |-> "HISTÓRICO",   color |-> "#9333ea"],
       [token |-> "LIBERAL",     color |-> "#ef4444"],
       [token |-> "CONSERVADOR", color |-> "#1d4ed8"],
       [token |-> "VERDE",       color |-> "#22c55e"] >>

DefaultColour == "#64748b"

OccursIn(part, str) ==
    \E at \in 0..(Len(str) - Len(part)) :
        \A j \in 1..Len(part) : SubSeq(str, at + j, at + j) = SubSeq(part, j, j)

ColourByToken(name) ==
    LET hits == {i \in 1..Len(TokenColours) : OccursIn(TokenColours[i].token, name)}
    IN  IF hits = {} THEN DefaultColour
        ELSE TokenColours[CHOOSE i \in hits : \A j \in hits : i <= j].color

OwnColour(name) ==
    CASE name = "PARTIDO CENTRO DEMOCRÁTICO" -> "#0ea5e9"
      [] name = "PACTO HISTÓRICO"            -> "#9333ea"
      [] name = "PARTIDO LIBERAL"            -> "#ef4444"
      [] name = "PARTIDO CONSERVADOR"        -> "#1d4ed8"
      [] name = "ALIANZA VERDE"              -> "#22c55e"
      [] OTHER                               -> ColourByToken(name)

\* C15: in party mode every location has radius 8, opacity 0.8 and no
\* emphasis, and the colour of the first table entry, in table order, whose
\* token (the second word of its key) is contained in winningParty; the
\* default colour when there is none or winningParty is empty; a winningParty
\* equal to a table key has that key's colour.
C15_PartyModeColours ==
    viewMode = "party" =>
        \A i \in 1..Len(filteredData) :
            /\ markers[i].radius = [fn |-> "const", v |-> 8]
            /\ markers[i].opacity = "0.8"
            /\ markers[i].stroke = FALSE
            /\ markers[i].color = ColourByToken(filteredData[i].winningParty)
            /\ markers[i].color = OwnColour(filteredData[i].winningParty)

\* party mode on a location whose winner holds two tokens, the later one of
\* the table first, and a location without a winner
C15_Witness ==
    /\ viewMode = "party"
    /\ \E i, j \in 1..Len(filteredData) :
          /\ filteredData[i].winningParty = "COALICIÓN VERDE CENTRO"
          /\ markers[i].color = "#0ea5e9"
          /\ filteredData[j].winningParty = ""
          /\ markers[j].color = DefaultColour

Streaming == isLive /\ dataSource = "E14_STREAM"

\* some location's totalVotes has grown although no file was loaded
TotalsRaised ==
    /\ rawData' = rawData
    /\ Len(aggregatedData') = Len(aggregatedData)
    /\ \E i \in 1..Len(aggregatedData) :
          aggregatedData'[i].totalVotes > aggregatedData[i].totalVotes

\* C16: isLive implies that the data source is E14_STREAM, in every reachable
\* state; the CSV button leaves isLive false; the live toggle acts only on the
\* stream source; and totals grow, without a load, only in a step taken
\* while isLive is true and the source is E14_STREAM: never once the stream
\* is paused or the source is CSV.
C16_LiveOnlyInStreamMode ==
    /\ (isLive => dataSource = "E14_STREAM")
    /\ [][/\ isLive' => dataSource' = "E14_STREAM"
          /\ (dataSource' = "CSV" /\ dataSource # "CSV") => ~isLive'
          /\ isLive' # isLive => (dataSource = "E14_STREAM" \/ ~isLive')
          /\ TotalsRaised => Streaming
          /\ (~Streaming /\ rawData' = rawData) =>
                 \A i \in 1..Len(aggregatedData) :
                     /\ Len(aggregatedData') = Len(aggregatedData)
                     /\ aggregatedData'[i].totalVotes <= aggregatedData[i].totalVotes]_vars

\* the stream has added votes and the source is CSV again
C16_Witness ==
    /\ dataSource = "CSV" /\ ~isLive
    /\ \E i \in 1..Len(aggregatedData) : Drift(aggregatedData[i]) > 0

LocationNames(records) == {records[i].name : i \in 1..Len(records)}

RECURSIVE SumVotes(_)
SumVotes(records) ==
    IF records = << >> THEN 0 ELSE records[1].votes + SumVotes(Tail(records))

SelectionAbsent ==
    \/ filters'.party # "ALL" /\ filters'.party \notin uniqueParties(rawData')
    \/ filters'.candidate # "ALL" /\ filters'.candidate \notin uniqueCandidates(rawData')

\* C17: a file upload replaces rawData and aggregatedData by the records of
\* the new file and their aggregate, nothing of the old aggregate or of the
\* stream's additions remaining, and leaves filters, view mode, live flag,
\* data source and transcript as they were; a selected party or candidate
\* that the new data does not name stays selected, and then the visible set
\* and both analytics lists are empty; an empty record set gives an empty
\* aggregate and an empty visible set.
C17_UploadReplacesData ==
    [][\A f \in Files :
          handleFileUpload(f) =>
              /\ rawData' = f
              /\ {d.name : d \in Range(aggregatedData')} = LocationNames(f)
              /\ Len(aggregatedData') = Cardinality(LocationNames(f))
              /\ SumTotalVotes(aggregatedData') = SumVotes(f)
              /\ \A i \in 1..Len(aggregatedData') : Drift(aggregatedData'[i]) = 0
              /\ UNCHANGED << filters, viewMode, isLive, dataSource, messages >>
              /\ SelectionAbsent =>
                     /\ filteredData' = << >>
                     /\ analytics'.topParties = << >>
                     /\ analytics'.topCandidates = << >>
              /\ f = << >> => aggregatedData' = << >> /\ filteredData' = << >>]_vars

\* the selected party is not among the uploaded records, the stream is live
\* and nothing is visible
C17_Witness ==
    /\ filters.party # "ALL" /\ filters.party \notin uniqueParties(rawData)
    /\ aggregatedData # << >> /\ filteredData = << >>
    /\ analytics.topParties = << >> /\ analytics.topCandidates = << >>
    /\ isLive /\ viewMode # "heatmap"
    /\ messages # << >>

=============================================================================
